---------------------------- MODULE Spec2Model ----------------------------
(***************************************************************************)
(* A model of src/app.py: the face-login routes that share the process-wide *)
(* store (KNOWN_FACES, KNOWN_NAMES) and the faces directory, and the        *)
(* Socket.IO signaling handlers that relay events inside rooms.             *)
(*                                                                          *)
(* The two halves share no state (the signaling handlers never read the     *)
(* session or the store), so each has its own specification:                *)
(*   SpecRelay  the Socket.IO connections, rooms and handlers;              *)
(*   SpecDispatch  the same handlers, each run by the thread the server     *)
(*              starts for an event received from a client;                 *)
(*   SpecStore  the HTTP request threads working on the store.              *)
(***************************************************************************)
EXTENDS Integers, Sequences, FiniteSets, TLC

VARIABLES
    \* ---- signaling (Socket.IO server created at app.py:14) ----
    conn,        \* conn[c]: "idle" (never connected), "open", "closed"
    rooms,       \* rooms[r]: the set of connections in room r (empty = no room)
    last,        \* the event handled by the last step, with what it emitted
    inbox,       \* inbox[c]: the events received from c, oldest first, whose
                 \* handler threads have been started and have not run yet
    arrived,     \* the number of events received so far
    \* ---- face login (the process-wide store and the HTTP threads) ----
    dir,         \* the faces directory: dir[f] is the content of file f
    KNOWN_FACES, \* the global list of encodings
    KNOWN_NAMES, \* the global list of names
    now,         \* the wall clock, in seconds
    session,     \* session[t]: the "user" of the client served by thread t
    pc,          \* pc[t]: where thread t is in its request
    loc,         \* loc[t]: the locals of the request thread t is serving
    ret,         \* the response returned by the last step, if it returned one
    reported,    \* the enrolled files whose new_face response has been returned
    served       \* the number of requests accepted so far

relayVars == <<conn, rooms, last, inbox, arrived>>

dispatchVars == <<inbox, arrived>>

storeVars == <<dir, KNOWN_FACES, KNOWN_NAMES, now, session, pc, loc, ret,
              reported, served>>

vars == <<conn, rooms, last, inbox, arrived, dir, KNOWN_FACES, KNOWN_NAMES, now, session, pc,
          loc, ret, reported, served>>

(***************************************************************************)
(* Bounds of the model.                                                     *)
(***************************************************************************)
NumConns == 3      \* Socket.IO connections (sids) that may ever connect
NumData == 2       \* distinct display names / opaque signaling payloads
MaxArrivals == 2   \* events received from the clients in one run

Conns == 1..NumConns
RoomIds == {"A", "B"}
DataVals == 1..NumData

RelayEvents == {"offer", "answer", "ice-candidate"}

(***************************************************************************)
(* Flask-SocketIO primitives used by the handlers.                          *)
(***************************************************************************)

\* A faulty join_room: joining a room one is in leaves it.
join_room_toggles(rms, c, r) ==
    [rms EXCEPT ![r] = IF c \in @ THEN @ \ {c} ELSE @ \cup {c}]

\* join_room(room): the calling connection enters the room (a set: entering
\* twice is entering once).
join_room(rms, c, r) == [rms EXCEPT ![r] = @ \cup {c}]

\* A faulty leave_room: it forgets to take the connection out.
leave_room_keeps(rms, c, r) == rms

\* leave_room(room): the calling connection leaves the room.
leave_room(rms, c, r) == [rms EXCEPT ![r] = @ \ {c}]

\* A faulty emit: include_self=False is ignored.
emit_others_with_self(rms, c, r) == rms[r]

\* emit(event, data, to=room, include_self=False): every connection in the
\* room except the calling one, whether or not the caller is in the room.
emit_others(rms, c, r) == rms[r] \ {c}

\* A faulty emit to the room: the sender receives it as well.
emit_room_with_self(rms, c, r) == rms[r] \cup {c}

\* emit(event, data, to=room): every connection in the room.
emit_room(rms, c, r) == rms[r]

\* A faulty cleanup: a disconnect leaves the room memberships behind.
disconnect_rooms_keeps(rms, c) == rms

\* The Socket.IO server takes a disconnected sid out of every room.
disconnect_rooms(rms, c) == [r \in RoomIds |-> rms[r] \ {c}]

NoEvent == [type |-> "none", conn |-> 0, room |-> "A", data |-> 0,
            before |-> [r \in RoomIds |-> {}], out |-> "none",
            body |-> 0, to |-> {}, origin |-> <<>>]

\* The record of one handled event: who sent what, the memberships before
\* it, and the emission (event name, body, recipients).  origin is <<B>>
\* when this is a leave that directly follows the same connection's join of
\* the same room, B being the memberships before that join.
Event(type, c, r, d, out, body, to) ==
    [type |-> type, conn |-> c, room |-> r, data |-> d, before |-> rooms,
     out |-> out, body |-> body, to |-> to,
     origin |-> IF type = "leave" /\ last.type = "join" /\ last.conn = c
                   /\ last.room = r
                THEN <<last.before>> ELSE <<>>]

(***************************************************************************)
(* Connection lifecycle (the server object of app.py:14).                   *)
(***************************************************************************)
Connect(c) ==
    /\ conn[c] = "idle"
    /\ conn' = [conn EXCEPT ![c] = "open"]
    /\ last' = Event("connect", c, "A", 0, "none", 0, {})
    /\ UNCHANGED <<rooms, storeVars>>

\* An abrupt disconnect: no handler of app.py runs (none is registered).
Disconnect(c) ==
    /\ conn[c] = "open"
    /\ conn' = [conn EXCEPT ![c] = "closed"]
    /\ rooms' = disconnect_rooms(rooms, c)
    /\ last' = Event("disconnect", c, "A", 0, "none", 0, {})
    /\ UNCHANGED storeVars

(***************************************************************************)
(* The signaling handlers.                                                  *)
(***************************************************************************)
on_join(c, r, name) ==
    /\ conn[c] = "open"
    /\ rooms' = join_room(rooms, c, r)
    /\ last' = Event("join", c, r, name, "user-joined", name,
                     emit_others(rooms', c, r))
    /\ UNCHANGED <<conn, storeVars>>

on_leave(c, r, name) ==
    /\ conn[c] = "open"
    /\ rooms' = leave_room(rooms, c, r)
    /\ last' = Event("leave", c, r, name, "user-left", name,
                     emit_room(rooms', c, r))
    /\ UNCHANGED <<conn, storeVars>>

\* A faulty relay: it also makes the sender a member of the room.
relay_joins(ev, c, r, payload) ==
    /\ conn[c] = "open"
    /\ rooms' = join_room(rooms, c, r)
    /\ last' = Event(ev, c, r, payload, ev, payload, emit_others(rooms, c, r))
    /\ UNCHANGED <<conn, storeVars>>

\* on_offer, on_answer and on_ice_candidate differ in the event name only.
relay(ev, c, r, payload) ==
    /\ conn[c] = "open"
    /\ last' = Event(ev, c, r, payload, ev, payload, emit_others(rooms, c, r))
    /\ UNCHANGED <<conn, rooms, storeVars>>

on_offer(c, r, payload) == relay("offer", c, r, payload)

on_answer(c, r, payload) == relay("answer", c, r, payload)

on_ice_candidate(c, r, payload) == relay("ice-candidate", c, r, payload)


(***************************************************************************)
(* The face store.  Encodings are points on a line, distances in tenths:    *)
(* two encodings match when they are at most Tolerance apart.  An encoding  *)
(* also carries the file it was computed from, which no code reads: it      *)
(* names the identity the encoding belongs to.                              *)
(***************************************************************************)
Tolerance == 5
MaxTime == 1       \* the clock runs from 0 to MaxTime
MaxRequests == 2   \* requests the server accepts in one run

Encodings == {0, 3, 6}
Threads == {"t1", "t2"}
Times == 0..MaxTime

\* A file name is base, timestamp (0 when it has none) and extension.
File(b, ts, e) == [base |-> b, ts |-> ts, ext |-> e]
InitFiles == {File("admin", 0, "jpg"), File("admin", 0, "png")}
UserFiles == {File("user", ts, "jpg") : ts \in Times}
Files == InitFiles \cup UserFiles
NoFile == File("", 0, "")
NoUser == File("", 0, "")
Admin == File("admin", 0, "")

\* What a file holds: nothing (absent), an image with a face of encoding
\* enc, an image with no face, or bytes that do not load as an image.
Absent == [kind |-> "absent", enc |-> 0]
FaceImage(e) == [kind |-> "face", enc |-> e]
NoFaceImage == [kind |-> "noface", enc |-> 0]
Corrupt == [kind |-> "corrupt", enc |-> 0]
Contents == {Absent, NoFaceImage, Corrupt} \cup {FaceImage(e) : e \in Encodings}

\* The directories the server may start with.
InitDirs ==
    {d \in [Files -> Contents] :
        /\ d[File("admin", 0, "jpg")] \in {Absent, FaceImage(0), Corrupt}
        /\ d[File("admin", 0, "png")] \in {Absent, FaceImage(3), NoFaceImage}
        /\ \A f \in UserFiles : d[f] = Absent}

Range(s) == {s[i] : i \in 1..Len(s)}

\* os.path.splitext(filename)[0]
splitext(f) == File(f.base, f.ts, "")

\* filename.lower().endswith((".jpg", ".jpeg", ".png"))
is_image_name(f) == f.ext \in {"jpg", "jpeg", "png"}

\* os.listdir(FACES_DIR): the files present, in an order the file system
\* chooses.
listdir(d) ==
    LET present == {f \in Files : d[f] # Absent}
    IN  {o \in [1..Cardinality(present) -> present] :
            \A i, j \in 1..Cardinality(present) : o[i] = o[j] => i = j}

\* face_recognition.face_encodings(image) of a stored file, first face only;
\* load_image_file raising (a corrupt file) is caught: the file is skipped.
file_encodings(d, f) ==
    IF d[f].kind = "face" THEN <<[enc |-> d[f].enc, of |-> f]>> ELSE <<>>

RECURSIVE load_in_order(_, _)
load_in_order(d, o) ==
    IF o = <<>> THEN [faces |-> <<>>, names |-> <<>>]
    ELSE LET rest == load_in_order(d, SubSeq(o, 1, Len(o) - 1))
             f == o[Len(o)]
             encs == file_encodings(d, f)
         IN  IF is_image_name(f) /\ encs # <<>>
             THEN [faces |-> Append(rest.faces, encs[1]),
                   names |-> Append(rest.names, splitext(f))]
             ELSE rest

\* load_faces(): the (known_faces, known_names) pairs it may return, one for
\* each listing order.  The listing and the reads of the files are taken as
\* one step.
load_faces(d) == {load_in_order(d, o) : o \in listdir(d)}

(***************************************************************************)
(* POST /login                                                              *)
(***************************************************************************)
\* The request's "image": missing, a string that is not base64, bytes that
\* are no image, an image without a face, an image with a face.
Images == {[kind |-> k, enc |-> 0] : k \in {"missing", "badb64", "notimage", "noface"}}
          \cup {[kind |-> "face", enc |-> e] : e \in Encodings}

\* A faulty detector: it finds a face in every decodable image.
face_encodings_always(img) == <<img.enc>>

\* face_recognition.face_encodings(frame) of the submitted frame.
face_encodings(img) == IF img.kind = "face" THEN <<img.enc>> ELSE <<>>

Dist(a, b) == IF a >= b THEN a - b ELSE b - a

\* face_recognition.compare_faces(known, unknown, tolerance=0.5)
compare_faces(known, unknown) ==
    [i \in 1..Len(known) |-> Dist(known[i].enc, unknown) <= Tolerance]

\* matches.index(True)
index_true(matches) ==
    CHOOSE i \in 1..Len(matches) :
        matches[i] /\ \A j \in 1..(i - 1) : ~matches[j]

NoRec == [enc |-> 0 - 1, of |-> NoFile]
NoLoad == [faces |-> <<>>, names |-> <<>>]
NoImage == [kind |-> "none", enc |-> 0]

\* The locals of a request.  seen is the KNOWN_FACES list the login handed
\* to compare_faces, matched the record of it that the login found to match
\* (at index idx); known tells whether that record's file was an enrollment
\* already reported to a client when the login began; wrote is how
\* cv2.imwrite ended.
IdleLoc == [op |-> "none", img |-> NoImage, seen |-> <<>>, idx |-> 0,
            matched |-> NoRec, known |-> FALSE, file |-> NoFile,
            wrote |-> "none", loaded |-> NoLoad]

\* A response: the visible part is status and name; the rest records the
\* request it answers.
Response(t, l, status, name) ==
    [by |-> t, status |-> status, name |-> name, op |-> l.op, img |-> l.img,
     seen |-> l.seen, idx |-> l.idx, matched |-> l.matched,
     known |-> l.known, file |-> l.file, wrote |-> l.wrote]

NoResponse == [by |-> "", status |-> "none", name |-> NoUser, op |-> "none",
               img |-> NoImage, seen |-> <<>>, idx |-> 0, matched |-> NoRec,
               known |-> FALSE, file |-> NoFile, wrote |-> "none"]

\* The visible body of a response.
Body(r) == [status |-> r.status, name |-> r.name]

\* Lines 49, 56 and 62: the reply to a payload that does not decode.
decode_fail_reply == [status |-> "fail", name |-> NoUser]

\* Line 85: the reply to an image in which no face is found.
no_face_reply == [status |-> "fail", name |-> NoUser]

\* Line 83: the name in the new_face reply is the file name.
new_face_name(f) == f

\* Lines 47-62: the payload is missing, is not base64 or does not decode to
\* an image.
undecodable(img) == img.kind \in {"missing", "badb64", "notimage"}

Finish(t, l, status, name) ==
    /\ pc' = [pc EXCEPT ![t] = "idle"]
    /\ loc' = [loc EXCEPT ![t] = IdleLoc]
    /\ ret' = Response(t, l, status, name)

\* The threads are interchangeable: the first request of a run is given to
\* thread t1.
Accepts(t) == pc[t] = "idle" /\ served < MaxRequests /\ (served = 0 => t = "t1")

\* Lines 47-74: decode, encode, compare against KNOWN_FACES.
login(t, img) ==
    /\ Accepts(t)
    /\ served' = served + 1
    /\ LET l0 == [IdleLoc EXCEPT !.op = "login", !.img = img]
           encs == face_encodings(img)
       IN  IF undecodable(img)
           THEN Finish(t, l0, decode_fail_reply.status, decode_fail_reply.name)
           ELSE IF encs = <<>>
           THEN Finish(t, l0, no_face_reply.status, no_face_reply.name)
           ELSE LET matches == IF KNOWN_FACES # <<>>
                               THEN compare_faces(KNOWN_FACES, encs[1])
                               ELSE <<>>
                    i == index_true(matches)
                    l1 == [l0 EXCEPT !.seen = KNOWN_FACES]
                IN  /\ IF TRUE \in Range(matches)
                       THEN /\ pc' = [pc EXCEPT ![t] = "name"]
                            /\ loc' = [loc EXCEPT ![t] =
                                  [l1 EXCEPT !.idx = i,
                                             !.matched = KNOWN_FACES[i],
                                             !.known = KNOWN_FACES[i].of \in reported]]
                       ELSE /\ pc' = [pc EXCEPT ![t] = "write"]
                            /\ loc' = [loc EXCEPT ![t] =
                                  [l1 EXCEPT !.file = File("user", now, "jpg")]]
                    /\ ret' = NoResponse
    /\ UNCHANGED <<dir, KNOWN_FACES, KNOWN_NAMES, now, session, reported, relayVars>>

\* A faulty login_name: it answers success and leaves the session alone.
login_name_forgets(t) ==
    /\ pc[t] = "name"
    /\ loc[t].idx <= Len(KNOWN_NAMES)
    /\ Finish(t, loc[t], "success", KNOWN_NAMES[loc[t].idx])
    /\ UNCHANGED <<dir, KNOWN_FACES, KNOWN_NAMES, now, session, reported, served,
                   relayVars>>

\* Lines 69-71: name = KNOWN_NAMES[matches.index(True)].  An index past the
\* end raises IndexError, which Flask answers with a 500.
login_name(t) ==
    /\ pc[t] = "name"
    /\ IF loc[t].idx <= Len(KNOWN_NAMES)
       THEN /\ session' = [session EXCEPT ![t] = KNOWN_NAMES[loc[t].idx]]
            /\ Finish(t, loc[t], "success", KNOWN_NAMES[loc[t].idx])
       ELSE /\ Finish(t, loc[t], "error", NoUser)
            /\ UNCHANGED session
    /\ UNCHANGED <<dir, KNOWN_FACES, KNOWN_NAMES, now, reported, served, relayVars>>

\* Lines 77-81: cv2.imwrite(path, frame).  It writes the file; or it raises
\* and the login answers fail; or, as cv2.imwrite does when the file cannot
\* be written, it returns False, which the code does not look at.
login_write(t, outcome) ==
    /\ pc[t] = "write"
    /\ LET l == [loc[t] EXCEPT !.wrote = outcome]
       IN  CASE outcome = "ok" ->
                  /\ dir' = [dir EXCEPT ![l.file] = FaceImage(l.img.enc)]
                  /\ pc' = [pc EXCEPT ![t] = "load"]
                  /\ loc' = [loc EXCEPT ![t] = l]
                  /\ ret' = NoResponse
             [] outcome = "raised" ->
                  /\ Finish(t, l, "fail", NoUser)
                  /\ UNCHANGED dir
             [] outcome = "false" ->
                  /\ pc' = [pc EXCEPT ![t] = "load"]
                  /\ loc' = [loc EXCEPT ![t] = l]
                  /\ ret' = NoResponse
                  /\ UNCHANGED dir
    /\ UNCHANGED <<KNOWN_FACES, KNOWN_NAMES, now, session, reported, served, relayVars>>

\* Lines 82 and 133, right-hand side: load_faces().
reload(t) ==
    /\ pc[t] = "load"
    /\ \E ld \in load_faces(dir) :
          loc' = [loc EXCEPT ![t].loaded = ld]
    /\ pc' = [pc EXCEPT ![t] = "faces"]
    /\ ret' = NoResponse
    /\ UNCHANGED <<dir, KNOWN_FACES, KNOWN_NAMES, now, session, reported, served, relayVars>>

\* Lines 82 and 133, the first store of the tuple assignment.
store_faces(t) ==
    /\ pc[t] = "faces"
    /\ KNOWN_FACES' = loc[t].loaded.faces
    /\ pc' = [pc EXCEPT ![t] = "names"]
    /\ ret' = NoResponse
    /\ UNCHANGED <<dir, KNOWN_NAMES, now, session, loc, reported, served, relayVars>>

\* Lines 82 and 133, the second store, and the return (lines 83 and 135).
store_names(t) ==
    /\ pc[t] = "names"
    /\ KNOWN_NAMES' = loc[t].loaded.names
    /\ IF loc[t].op = "login"
       THEN /\ Finish(t, loc[t], "new_face", new_face_name(loc[t].file))
            /\ reported' = reported \cup {loc[t].file}
       ELSE /\ Finish(t, loc[t], "redirect", NoUser)
            /\ UNCHANGED reported
    /\ UNCHANGED <<dir, KNOWN_FACES, now, session, served, relayVars>>

(***************************************************************************)
(* GET /admin/delete/<username>                                             *)
(***************************************************************************)
Usernames == {splitext(f) : f \in Files}

\* A faulty gate: every session passes.
is_admin_anyone(user) == TRUE

\* Lines 115, 124 and 140: session.get("user") is "admin".
is_admin(user) == user = Admin

\* Lines 123-128: the session check and os.path.exists(filepath).
admin_delete(t, username) ==
    /\ Accepts(t)
    /\ served' = served + 1
    /\ LET l == [IdleLoc EXCEPT !.op = "delete",
                                !.file = File(username.base, username.ts, "jpg")]
       IN  IF ~is_admin(session[t])
           THEN Finish(t, l, "denied", NoUser)
           ELSE /\ pc' = [pc EXCEPT ![t] =
                            IF dir[l.file] # Absent THEN "remove" ELSE "load"]
                /\ loc' = [loc EXCEPT ![t] = l]
                /\ ret' = NoResponse
    /\ UNCHANGED <<dir, KNOWN_FACES, KNOWN_NAMES, now, session, reported, relayVars>>

\* Line 129: os.remove(filepath); FileNotFoundError when the file has gone
\* since the check, which Flask answers with a 500.
admin_delete_remove(t) ==
    /\ pc[t] = "remove"
    /\ IF dir[loc[t].file] # Absent
       THEN /\ dir' = [dir EXCEPT ![loc[t].file] = Absent]
            /\ reported' = reported \ {loc[t].file}
            /\ pc' = [pc EXCEPT ![t] = "load"]
            /\ ret' = NoResponse
            /\ UNCHANGED loc
       ELSE /\ Finish(t, loc[t], "error", NoUser)
            /\ UNCHANGED <<dir, reported>>
    /\ UNCHANGED <<KNOWN_FACES, KNOWN_NAMES, now, session, served, relayVars>>

(***************************************************************************)
(* GET /call, GET /admin/logout_all, POST /admin/broadcast                  *)
(***************************************************************************)
\* Lines 89-93: the call page is rendered for the session's user; a client
\* without one is sent back to the index page.
call_room(t) ==
    /\ Accepts(t)
    /\ served' = served + 1
    /\ LET l == [IdleLoc EXCEPT !.op = "call"]
       IN  IF session[t] = NoUser
           THEN Finish(t, l, "redirect", NoUser)
           ELSE Finish(t, l, "page", session[t])
    /\ UNCHANGED <<dir, KNOWN_FACES, KNOWN_NAMES, now, session, reported, relayVars>>

\* socketio.emit(event, data) from a route: to every open connection.
emit_all(event, body) ==
    last' = Event("route", 0, "A", 0, event, body, {c \in Conns : conn[c] = "open"})

\* Lines 113-118: force-logout to every connection, for the admin only.
logout_all(t) ==
    /\ Accepts(t)
    /\ served' = served + 1
    /\ LET l == [IdleLoc EXCEPT !.op = "logout_all"]
       IN  IF ~is_admin(session[t])
           THEN /\ Finish(t, l, "denied", NoUser)
                /\ UNCHANGED last
           ELSE /\ emit_all("force-logout", 0)
                /\ Finish(t, l, "redirect", NoUser)
    /\ UNCHANGED <<dir, KNOWN_FACES, KNOWN_NAMES, now, session, reported, conn, rooms,
                   dispatchVars>>

\* Lines 137-145: broadcast{message} to every connection, for the admin only.
admin_broadcast(t, message) ==
    /\ Accepts(t)
    /\ served' = served + 1
    /\ LET l == [IdleLoc EXCEPT !.op = "broadcast"]
       IN  IF ~is_admin(session[t])
           THEN /\ Finish(t, l, "denied", NoUser)
                /\ UNCHANGED last
           ELSE /\ emit_all("broadcast", message)
                /\ Finish(t, l, "redirect", NoUser)
    /\ UNCHANGED <<dir, KNOWN_FACES, KNOWN_NAMES, now, session, reported, conn, rooms,
                   dispatchVars>>

\* A second passes on the wall clock.
Tick ==
    /\ now < MaxTime
    /\ now' = now + 1
    /\ ret' = NoResponse
    /\ UNCHANGED <<dir, KNOWN_FACES, KNOWN_NAMES, session, pc, loc, reported, served, relayVars>>

\* The store half at rest, for the specification of the relay.
StoreAtRest ==
    /\ dir = [f \in Files |-> Absent]
    /\ KNOWN_FACES = <<>>
    /\ KNOWN_NAMES = <<>>
    /\ now = 0
    /\ session = [t \in Threads |-> NoUser]
    /\ pc = [t \in Threads |-> "idle"]
    /\ loc = [t \in Threads |-> IdleLoc]
    /\ ret = NoResponse
    /\ reported = {}
    /\ served = 0

\* The relay half at rest, for the specification of the store.
RelayAtRest ==
    /\ conn = [c \in Conns |-> "idle"]
    /\ rooms = [r \in RoomIds |-> {}]
    /\ last = NoEvent
    /\ inbox = [c \in Conns |-> <<>>]
    /\ arrived = 0

\* Startup (lines 17-37): the store is loaded from the directory.
StoreInit ==
    /\ dir \in InitDirs
    /\ \E ld \in load_faces(dir) :
          /\ KNOWN_FACES = ld.faces
          /\ KNOWN_NAMES = ld.names
    /\ now = 0
    /\ session = [t \in Threads |-> NoUser]
    /\ pc = [t \in Threads |-> "idle"]
    /\ loc = [t \in Threads |-> IdleLoc]
    /\ ret = NoResponse
    /\ reported = {}
    /\ served = 0
    /\ RelayAtRest

StoreNext ==
    \/ \E t \in Threads, img \in Images : login(t, img)
    \/ \E t \in Threads : login_name(t)
    \/ \E t \in Threads, o \in {"ok", "raised", "false"} : login_write(t, o)
    \/ \E t \in Threads : reload(t)
    \/ \E t \in Threads : store_faces(t)
    \/ \E t \in Threads : store_names(t)
    \/ \E t \in Threads, u \in Usernames : admin_delete(t, u)
    \/ \E t \in Threads : admin_delete_remove(t)
    \/ \E t \in Threads : call_room(t)
    \/ \E t \in Threads : logout_all(t)
    \/ \E t \in Threads, m \in DataVals : admin_broadcast(t, m)
    \/ Tick

SpecStore == StoreInit /\ [][StoreNext]_vars

RelayInit == RelayAtRest /\ StoreAtRest

RelayNext ==
    \/ \E c \in Conns : Connect(c) /\ UNCHANGED dispatchVars
    \/ \E c \in Conns : Disconnect(c) /\ UNCHANGED dispatchVars
    \/ \E c \in Conns, r \in RoomIds, d \in DataVals :
          on_join(c, r, d) /\ UNCHANGED dispatchVars
    \/ \E c \in Conns, r \in RoomIds, d \in DataVals :
          on_leave(c, r, d) /\ UNCHANGED dispatchVars
    \/ \E c \in Conns, r \in RoomIds, d \in DataVals :
          on_offer(c, r, d) /\ UNCHANGED dispatchVars
    \/ \E c \in Conns, r \in RoomIds, d \in DataVals :
          on_answer(c, r, d) /\ UNCHANGED dispatchVars
    \/ \E c \in Conns, r \in RoomIds, d \in DataVals :
          on_ice_candidate(c, r, d) /\ UNCHANGED dispatchVars

SpecRelay == RelayInit /\ [][RelayNext]_vars

(***************************************************************************)
(* The dispatch of received events.  The server of app.py:14 is created     *)
(* with the defaults of SocketIO: async_handlers is True, so the handler of *)
(* each received event runs in a thread of its own, started in the order    *)
(* of arrival and scheduled as the interpreter pleases.                     *)
(***************************************************************************)
Messages ==
    [type : {"join", "leave"} \cup RelayEvents, room : RoomIds, data : DataVals]

\* The sequence s without its k-th element.
Without(s, k) == SubSeq(s, 1, k - 1) \o SubSeq(s, k + 1, Len(s))

\* An event of connection c is received: its handler thread is started.
Arrive(c, e) ==
    /\ conn[c] = "open"
    /\ arrived < MaxArrivals
    /\ arrived' = arrived + 1
    /\ inbox' = [inbox EXCEPT ![c] = Append(@, e)]
    /\ UNCHANGED <<conn, rooms, last, storeVars>>

\* The handler thread of the k-th pending event of c runs.
Handle(c, k) ==
    /\ k \in 1..Len(inbox[c])
    /\ LET e == inbox[c][k]
       IN  \/ e.type = "join" /\ on_join(c, e.room, e.data)
           \/ e.type = "leave" /\ on_leave(c, e.room, e.data)
           \/ e.type = "offer" /\ on_offer(c, e.room, e.data)
           \/ e.type = "answer" /\ on_answer(c, e.room, e.data)
           \/ e.type = "ice-candidate" /\ on_ice_candidate(c, e.room, e.data)
    /\ inbox' = [inbox EXCEPT ![c] = Without(@, k)]
    /\ UNCHANGED arrived

\* A disconnect while handlers of the connection are pending is left out.
DispatchNext ==
    \/ \E c \in Conns : Connect(c) /\ UNCHANGED dispatchVars
    \/ \E c \in Conns :
          inbox[c] = <<>> /\ Disconnect(c) /\ UNCHANGED dispatchVars
    \/ \E c \in Conns, e \in Messages : Arrive(c, e)
    \/ \E c \in Conns, k \in 1..MaxArrivals : Handle(c, k)

SpecDispatch == RelayInit /\ [][DispatchNext]_vars


(***************************************************************************)
(* Properties of the signaling relay, checked under SpecRelay.              *)
(***************************************************************************)

\* C1: when a member of a room with N members sends an offer, answer or
\* ice-candidate for that room, the event goes to exactly the N-1 other
\* members and never to the sender.
C1_FanOutExclusion ==
    (last.type \in RelayEvents /\ last.conn \in last.before[last.room]) =>
        /\ last.to = last.before[last.room] \ {last.conn}
        /\ Cardinality(last.to) = Cardinality(last.before[last.room]) - 1
        /\ last.conn \notin last.to

C1_Witness ==
    /\ last.type = "offer"
    /\ last.conn \in last.before[last.room]
    /\ Cardinality(last.before[last.room]) = 3
    /\ Cardinality(last.to) = 2

\* C2: a relayed event reaches members of a room only when its sender is a
\* member of that room.
C2_RoomScoped ==
    (last.type \in RelayEvents /\ last.to # {}) =>
        last.conn \in last.before[last.room]

\* C3: a connection that has disconnected is a member of no room and is not
\* among the recipients of any emission.
C3_DisconnectCleanup ==
    \A c \in Conns :
        conn[c] = "closed" =>
            /\ \A r \in RoomIds : c \notin rooms[r]
            /\ c \notin last.to

C3_Witness ==
    /\ last.type = "disconnect"
    /\ last.conn \in last.before["A"] \cap last.before["B"]
    /\ last.before["A"] # {last.conn}
    /\ conn[last.conn] = "closed"
    /\ \A r \in RoomIds : last.conn \notin rooms[r]

\* C4 as stated: a join directly followed by a leave of the same room by the
\* same connection leaves every room's membership as it was before the join.
C4_RoundTrip ==
    (last.type = "leave" /\ last.origin # <<>>) => rooms = last.origin[1]

\* C4 as amended: the same, for a connection that was not a member of the
\* room before its join.
C4_RoundTripOfNewMember ==
    (/\ last.type = "leave"
     /\ last.origin # <<>>
     /\ last.conn \notin last.origin[1][last.room]) => rooms = last.origin[1]

C4_Witness ==
    /\ last.type = "leave"
    /\ last.origin # <<>>
    /\ last.conn \notin last.origin[1][last.room]
    /\ last.origin[1][last.room] # {}
    /\ rooms = last.origin[1]

(***************************************************************************)
(* Properties of the face login, checked under SpecStore.                   *)
(***************************************************************************)
Within(rec, e) == Dist(rec.enc, e) <= Tolerance

\* C5: a login that found a matching encoding returns success with the
\* identity of that encoding, whatever reloads run beside it.
C5_ReloadAtomic ==
    (ret.op = "login" /\ ret.matched # NoRec) =>
        /\ ret.status = "success"
        /\ ret.name = splitext(ret.matched.of)

\* C6: when the submitted encoding is within tolerance of some record of the
\* store it is compared with, login returns success with the identity of
\* the first such record in store order.
C6_FirstMatch ==
    (ret.op = "login" /\ \E i \in 1..Len(ret.seen) : Within(ret.seen[i], ret.img.enc)) =>
        LET first == CHOOSE i \in 1..Len(ret.seen) :
                        /\ Within(ret.seen[i], ret.img.enc)
                        /\ \A j \in 1..(i - 1) : ~Within(ret.seen[j], ret.img.enc)
        IN  /\ ret.status = "success"
            /\ ret.name = splitext(ret.seen[first].of)

\* C7: a login that matches a face whose enrollment was reported earlier
\* returns the name that the enrollment reported.
C7_EnrolledNameMatches ==
    (ret.status = "success" /\ ret.known) =>
        ret.name = new_face_name(ret.matched.of)

\* C8: a login with an image in which no face is found answers fail and
\* changes neither the store, nor the directory, nor the session.
C8_NoFaceChangesNothing ==
    [][(ret'.op = "login" /\ ret'.img.kind = "noface") =>
          /\ ret'.status = "fail"
          /\ KNOWN_FACES' = KNOWN_FACES
          /\ KNOWN_NAMES' = KNOWN_NAMES
          /\ dir' = dir
          /\ session' = session]_vars

C8_Witness ==
    /\ ret.op = "login"
    /\ ret.img.kind = "noface"
    /\ ret.status = "fail"
    /\ KNOWN_FACES # <<>>
    /\ \E t \in Threads : pc[t] = "faces"

\* C9: the reply to an image without a face differs from the reply to a
\* payload that does not decode.
C9_NoFaceDistinct ==
    (ret.op = "login" /\ ret.img.kind = "noface") =>
        Body(ret) # decode_fail_reply

\* C10: when the write of the image fails, login answers fail.
C10_WriteFailureReported ==
    (ret.op = "login" /\ ret.wrote \in {"raised", "false"}) =>
        ret.status = "fail"

\* C11: the session's user is set to n exactly in the step in which login
\* answers success with name n; a login that answers fail or new_face, and
\* every other step, leaves every session as it was.
C11_SessionOnlyByMatch ==
    [][/\ (ret'.op = "login" /\ ret'.status = "success") =>
              /\ session'[ret'.by] = ret'.name
              /\ \A t \in Threads \ {ret'.by} : session'[t] = session[t]
       /\ (ret'.op = "login" /\ ret'.status \in {"fail", "new_face"}) =>
              session' = session
       /\ (session' # session) =>
              (ret'.op = "login" /\ ret'.status = "success")]_vars

C11_Witness ==
    /\ ret.op = "login"
    /\ ret.status = "success"
    /\ ret.name = Admin
    /\ session[ret.by] = Admin
    /\ \E t \in Threads : session[t] = NoUser

\* C12: no two records of KNOWN_NAMES carry the same identity, and
\* KNOWN_FACES holds one encoding for each of them, at the same index.
C12_UniqueIdentities ==
    /\ Len(KNOWN_FACES) = Len(KNOWN_NAMES)
    /\ \A i, j \in 1..Len(KNOWN_NAMES) :
           KNOWN_NAMES[i] = KNOWN_NAMES[j] => i = j

\* C13: a join delivers user-joined{name} to the members of the room other
\* than the sender, and a leave delivers user-left{name} to the members that
\* remain once the sender is removed; the sender receives neither.
C13_MembershipNotices ==
    /\ last.type = "join" =>
           /\ last.out = "user-joined"
           /\ last.body = last.data
           /\ last.conn \in rooms[last.room]
           /\ last.to = rooms[last.room] \ {last.conn}
    /\ last.type = "leave" =>
           /\ last.out = "user-left"
           /\ last.body = last.data
           /\ rooms[last.room] = last.before[last.room] \ {last.conn}
           /\ last.to = rooms[last.room]
           /\ last.conn \notin last.to

C13_Witness ==
    /\ last.type = "leave"
    /\ last.conn \in last.before[last.room]
    /\ Cardinality(last.to) = 2

\* C14: joining a room twice gives the membership that joining it once gives,
\* leaving twice gives what leaving once gives, and a leave by a connection
\* that is not a member changes no room.
C14_Idempotent ==
    /\ \A c \in Conns, r \in RoomIds :
           /\ join_room(join_room(rooms, c, r), c, r) = join_room(rooms, c, r)
           /\ leave_room(leave_room(rooms, c, r), c, r) = leave_room(rooms, c, r)
    /\ (last.type = "join" /\ last.conn \in last.before[last.room]) =>
           rooms = last.before
    /\ (last.type = "leave" /\ last.conn \notin last.before[last.room]) =>
           rooms = last.before

C14_Witness ==
    /\ last.type = "join"
    /\ last.conn \in last.before[last.room]
    /\ Cardinality(rooms[last.room]) >= 2

\* C18: handling an offer, an answer or an ice-candidate changes no room's
\* membership, and what goes out is the event under its own name with the
\* sender's payload as it came in.
C18_RelayPassThrough ==
    last.type \in RelayEvents =>
        /\ rooms = last.before
        /\ last.out = last.type
        /\ last.body = last.data
        /\ last.to = rooms[last.room] \ {last.conn}

C18_Witness ==
    /\ last.type = "answer"
    /\ last.body = NumData
    /\ Cardinality(last.to) = 2

\* C15: the events of one connection are processed in the order in which
\* they arrive: the event a handler runs is the oldest pending event of its
\* connection.
C15_InArrivalOrder ==
    [][\A c \in Conns :
          Len(inbox'[c]) < Len(inbox[c]) => inbox'[c] = Tail(inbox[c])]_vars

\* C16: once the deletion of identity x has completed, the store holds no
\* record whose identity is x, whatever image file backed x.
C16_DeletedIdentityGone ==
    (ret.op = "delete" /\ ret.status = "redirect") =>
        splitext(ret.file) \notin Range(KNOWN_NAMES)

\* C17: the image of an enrollment is written under a name no file of the
\* directory has: the write never replaces an existing file.
C17_FreshFilename ==
    [][\A f \in Files :
          (dir'[f] # Absent /\ dir'[f] # dir[f]) => dir[f] = Absent]_vars

\* C19: once every request has completed, the store is what load_faces
\* returns for the directory as it is.
C19_QuiescentConsistent ==
    (\A t \in Threads : pc[t] = "idle") =>
        [faces |-> KNOWN_FACES, names |-> KNOWN_NAMES] \in load_faces(dir)

\* C20: a delete, a force-logout or a broadcast asked for by a session whose
\* user is not "admin" is denied in a step that changes neither the directory
\* nor the store and emits nothing; a delete goes past its gate, and an event
\* is emitted to the connections, for the admin's session only.
C20_AdminGated ==
    [][/\ (ret'.op \in {"delete", "logout_all", "broadcast"}
             /\ session[ret'.by] # Admin) =>
              /\ ret'.status = "denied"
              /\ dir' = dir
              /\ KNOWN_FACES' = KNOWN_FACES
              /\ KNOWN_NAMES' = KNOWN_NAMES
              /\ last' = last
       /\ \A t \in Threads :
              (loc'[t].op = "delete" /\ pc'[t] # "idle") => session[t] = Admin
       /\ (last' # last) =>
              /\ ret'.op \in {"logout_all", "broadcast"}
              /\ session[ret'.by] = Admin]_vars

C20_Witness ==
    /\ ret.op = "delete"
    /\ ret.status = "denied"
    /\ session[ret.by] = NoUser
    /\ dir[ret.file] # Absent
    /\ splitext(ret.file) \in Range(KNOWN_NAMES)

=============================================================================
